---- MODULE Spec2Model ----
(***************************************************************************)
(* Model of final455gui.py: the Maestro servo Controller (setRange,        *)
(* setTarget, sendCmd) and the Gui455 command queue with its execution     *)
(* thread (button_pressed, quit_window2, execute_threads, command_thread,  *)
(* endMethod).                                                             *)
(*                                                                         *)
(* Processes: 0 is the Tk main thread (button callbacks), 1..MaxRuns are   *)
(* the command_thread instances spawned by execute_threads.  Python        *)
(* threads interleave between statements, so every statement that reads    *)
(* or writes shared state (isRunning, runCount, command_list, the          *)
(* Controller) is one step.  Controller.setTarget is two steps: the write  *)
(* of the frame (sendCmd) and the assignment to Targets[chan].             *)
(*                                                                         *)
(* Left out: canvas drawing and animation_thread (they only read           *)
(* isRunning and runCount), except where a canvas lookup can raise:        *)
(* stringName has keys 1..8, so stringName[9] raises KeyError.             *)
(* time.sleep is a step without a clock.  valCount and timeChoice are      *)
(* chosen when the time dialog is closed (the up/down clicks are not       *)
(* steps).  Nested dialogs are closed innermost first.                     *)
(***************************************************************************)
EXTENDS Integers, Sequences, FiniteSets, TLC

(* ---------------- program constants ---------------- *)
neutralPos == 6000
MaxCommands == 8
NumChannels == 24
LeadIn == 170
Device == 12
OpSetTarget == 4

(* ---------------- bounds of the model ---------------- *)
MaxRuns == 2
MaxFaults == 1
MaxStops == 1
MaxAppends == 2
MaxDialogs == 2
InitFill == 7
RestartFill == 2
MainRuns == 1
RestartDialogs == 1
ShortRuns == 1
ShortAppends == 1
FaultFill == 2

Channels == 0 .. (NumChannels - 1)
Runs == 1 .. MaxRuns
Procs == 0 .. MaxRuns
MoveTypes == 1 .. 5
ValueChoices == {7000}
TimeChoices == {1}

VARIABLES
  command_list,  \* Gui455.command_list: sequence of <<moveType, value, time>>
  isRunning,     \* Gui455.isRunning
  runCount,      \* Gui455.runCount
  Targets,       \* Controller.Targets
  Mins,          \* Controller.Mins
  Maxs,          \* Controller.Maxs
  hw,            \* per channel, the target carried by the last frame written
  th,            \* per process: position and locals
  dialogs,       \* stack of open input dialogs of the main thread
  nruns,         \* number of command_thread instances started
  appends,       \* number of quit_window2 calls
  stops,         \* number of accepted stop presses
  limits,        \* the bounds of the explored behaviours, fixed by Init
  cleanups,      \* per run, number of endMethod calls made for it
  log,           \* per run, the writes issued by its command_thread
  lastCall,      \* the setTarget call made last, after the last setRange
  faults,        \* number of serial writes that have raised
  executed       \* per run, the commands (list objects) whose setTarget it issued

vars == <<command_list, isRunning, runCount, Targets, Mins, Maxs, hw, th,
          dialogs, nruns, appends, stops, limits, cleanups, log, lastCall,
          faults, executed>>

ctrlVars == <<Targets, Mins, Maxs, hw>>

\* the counters and bounds that only the main thread's callbacks change
guiCounts == <<nruns, appends, stops, limits>>

(* ---------------- Controller ---------------- *)

\* the clamp without its lower side (lines 97-98 left out)
ClampUpperOnly(mn, mx, target) ==
  IF mx > 0 /\ target > mx THEN mx ELSE target

\* setTarget, lines 96-101: the range clamp
Clamp(mn, mx, target) ==
  LET t1 == IF mn > 0 /\ target < mn THEN mn ELSE target
  IN  IF mx > 0 /\ t1 > mx THEN mx ELSE t1

\* target & 0x7f
Lsb(target) == target % 128

\* the high group taken one bit too far up: (target >> 8) & 0x7f
MsbShift8(target) == (target \div 256) % 128

\* (target >> 7) & 0x7f
Msb(target) == (target \div 128) % 128

\* sendCmd(chr(0x04) + chr(chan) + chr(lsb) + chr(msb))
SetTargetFrame(chan, target) ==
  <<LeadIn, Device, OpSetTarget, chan, Lsb(target), Msb(target)>>

\* what the device reads from a set-target frame
FrameTarget(frame) == frame[6] * 128 + frame[5]

(* ---------------- Gui455 helpers ---------------- *)

\* command_thread, lines 360-383: the channel of a move type
ChannelOf(moveType) ==
  CASE moveType = 1 -> 1
    [] moveType = 2 -> 2
    [] moveType = 3 -> 0
    [] moveType = 4 -> 4
    [] moveType = 5 -> 3

\* command_thread, lines 363 and 369: motor and turning go back to neutral
ReturnsToNeutral(moveType) == moveType \in {1, 2}

NoCmd == <<0, 0, 0, 0>>

NewProc(pc) == [pc |-> pc, i |-> 0, n |-> 0, cmd |-> NoCmd, em |-> 0, tgt |-> 0,
                snap |-> << >>, stopIdx |-> -2]

\* a queue of k commands the user has entered: the five move types in turn.
\* A command is the list object [moveType, value, time] made at line 309; its
\* fourth component here is the identity of that object
Fill(k) == [j \in 1 .. k |-> <<((j - 1) % 5) + 1, 7000, 1, j>>]

\* the identity of the list object made by the next quit_window2
NewId == MaxCommands + 1 + appends

\* the state after Gui455.__init__ and Controller.__init__, with the queue the
\* user has built given as q
Constructed(q) ==
  /\ command_list = q
  /\ isRunning = FALSE
  /\ runCount = 0
  /\ Targets = [c \in Channels |-> 0]
  /\ Mins = [c \in Channels |-> 0]
  /\ Maxs = [c \in Channels |-> 0]
  /\ hw = [c \in Channels |-> 0]
  /\ th = [p \in Procs |-> IF p = 0 THEN NewProc("loop") ELSE NewProc("none")]
  /\ dialogs = << >>
  /\ nruns = 0
  /\ appends = 0
  /\ stops = 0
  /\ cleanups = [r \in Runs |-> 0]
  /\ log = [r \in Runs |-> << >>]
  /\ lastCall = << >>
  /\ faults = 0
  /\ executed = [r \in Runs |-> << >>]

\* one run at a time, the whole queue capacity, nested dialogs
Init ==
  /\ Constructed(Fill(InitFill))
  /\ limits = [runs |-> MainRuns, stops |-> MaxStops, stoppable |-> Runs,
               appends |-> MaxAppends, dialogs |-> MaxDialogs, types |-> {3}]

\* a second run may start while the thread of the first is alive; stop is
\* pressed during the first run only
InitRestart ==
  /\ Constructed(Fill(RestartFill))
  /\ limits = [runs |-> MaxRuns, stops |-> MaxStops, stoppable |-> {1},
               appends |-> MaxAppends, dialogs |-> RestartDialogs, types |-> {3}]

\* the queue starts empty and stays short
InitShort ==
  /\ Constructed(<< >>)
  /\ limits = [runs |-> ShortRuns, stops |-> MaxStops, stoppable |-> {1},
               appends |-> ShortAppends, dialogs |-> RestartDialogs,
               types |-> {1, 3}]

\* a prepared queue and no dialog
InitFault ==
  /\ Constructed(Fill(FaultFill))
  /\ limits = [runs |-> ShortRuns, stops |-> MaxStops, stoppable |-> {1},
               appends |-> 0, dialogs |-> 0, types |-> {}]


(* ---------------- Controller.setTarget, as two steps ---------------- *)

\* lines 96-106: clamp, build the frame, sendCmd.  Process p keeps the clamped
\* target in its local until line 108 runs.
SendTarget(p, chan, target, pcNext) ==
  LET t == Clamp(Mins[chan], Maxs[chan], target)
      f == SetTargetFrame(chan, t)
  IN  /\ hw' = [hw EXCEPT ![chan] = FrameTarget(f)]
      /\ th' = [th EXCEPT ![p].tgt = t, ![p].pc = pcNext]
      /\ log' = IF p \in Runs THEN [log EXCEPT ![p] = Append(@, <<chan, t>>)] ELSE log
      /\ UNCHANGED <<Targets, Mins, Maxs>>

\* line 108: self.Targets[chan] = target
RecordTarget(p, chan) ==
  /\ Targets' = [Targets EXCEPT ![chan] = th[p].tgt]
  /\ UNCHANGED <<Mins, Maxs, hw, log>>

(* ---------------- command_thread ---------------- *)

\* line 352, first evaluation: range(len(self.command_list))
ThreadStart(r) ==
  /\ th[r].pc = "start"
  /\ th' = [th EXCEPT ![r].n = Len(command_list), ![r].snap = command_list,
                       ![r].pc = "check"]
  /\ UNCHANGED <<command_list, isRunning, runCount, ctrlVars, dialogs, guiCounts,
                 cleanups, log, lastCall, faults, executed>>

\* lines 352-354: next index of the range, then the isRunning test
LoopHead(r) ==
  /\ th[r].pc = "check"
  /\ th' = [th EXCEPT ![r].pc = IF th[r].i < th[r].n /\ isRunning
                                  THEN "fetch" ELSE "fin"]
  /\ UNCHANGED <<command_list, isRunning, runCount, ctrlVars, dialogs, guiCounts,
                 cleanups, log, lastCall, faults, executed>>

\* lines 356-359: runCount += 1, then command_list[i] (IndexError ends the thread)
Fetch(r) ==
  /\ th[r].pc = "fetch"
  /\ runCount' = runCount + 1
  /\ th' = IF th[r].i + 1 <= Len(command_list)
             THEN [th EXCEPT ![r].cmd = command_list[th[r].i + 1], ![r].pc = "w1"]
             ELSE [th EXCEPT ![r].pc = "dead"]
  /\ UNCHANGED <<command_list, isRunning, ctrlVars, dialogs, guiCounts,
                 cleanups, log, lastCall, faults, executed>>

\* lines 361, 367, 373, 378, 382: setTarget(channel, valueGiven), the write
MoveSend(r) ==
  /\ th[r].pc = "w1"
  /\ SendTarget(r, ChannelOf(th[r].cmd[1]), th[r].cmd[2], "r1")
  /\ executed' = [executed EXCEPT ![r] = Append(@, th[r].cmd[4])]
  /\ UNCHANGED <<command_list, isRunning, runCount, dialogs, guiCounts,
                 cleanups, lastCall, faults>>

\* the same call, line 108
MoveRecord(r) ==
  /\ th[r].pc = "r1"
  /\ RecordTarget(r, ChannelOf(th[r].cmd[1]))
  /\ th' = [th EXCEPT ![r].pc = "sleep1"]
  /\ UNCHANGED <<command_list, isRunning, runCount, dialogs, guiCounts,
                 cleanups, lastCall, faults, executed>>

\* lines 362, 368, 374, 379, 383: time.sleep(timeAllowed)
Hold(r) ==
  /\ th[r].pc = "sleep1"
  /\ th' = IF ReturnsToNeutral(th[r].cmd[1])
             THEN [th EXCEPT ![r].pc = "w2"]
             ELSE [th EXCEPT ![r].pc = "check", ![r].i = @ + 1]
  /\ UNCHANGED <<command_list, isRunning, runCount, ctrlVars, dialogs, guiCounts,
                 cleanups, log, lastCall, faults, executed>>

\* lines 363, 369: setTarget(channel, neutralPos), the write
NeutralSend(r) ==
  /\ th[r].pc = "w2"
  /\ SendTarget(r, ChannelOf(th[r].cmd[1]), neutralPos, "r2")
  /\ UNCHANGED <<command_list, isRunning, runCount, dialogs, guiCounts,
                 cleanups, lastCall, faults, executed>>

NeutralRecord(r) ==
  /\ th[r].pc = "r2"
  /\ RecordTarget(r, ChannelOf(th[r].cmd[1]))
  /\ th' = [th EXCEPT ![r].pc = "sleep2"]
  /\ UNCHANGED <<command_list, isRunning, runCount, dialogs, guiCounts,
                 cleanups, lastCall, faults, executed>>

\* lines 364, 370: time.sleep(1)
Rest(r) ==
  /\ th[r].pc = "sleep2"
  /\ th' = [th EXCEPT ![r].pc = "check", ![r].i = @ + 1]
  /\ UNCHANGED <<command_list, isRunning, runCount, ctrlVars, dialogs, guiCounts,
                 cleanups, log, lastCall, faults, executed>>

\* lines 386-387: self.isRunning = False, then endMethod() is entered
LoopExit(r) ==
  /\ th[r].pc = "fin"
  /\ isRunning' = FALSE
  /\ th' = [th EXCEPT ![r].pc = "emw", ![r].em = 0]
  /\ cleanups' = [cleanups EXCEPT ![r] = @ + 1]
  /\ UNCHANGED <<command_list, runCount, ctrlVars, dialogs, guiCounts,
                 log, lastCall, faults, executed>>

(* ---------------- endMethod, run by process p ---------------- *)

\* where endMethod's caller goes on: the main thread returns to the event
\* loop, a command_thread ends
AfterEnd(p) == IF p = 0 THEN "loop" ELSE "done"

\* an exception inside endMethod: Tk reports it and the event loop goes on,
\* a command_thread dies
AfterRaise(p) == IF p = 0 THEN "loop" ELSE "dead"

\* lines 434-438: setTarget(em, 6000), the write
EndSend(p) ==
  /\ th[p].pc = "emw"
  /\ SendTarget(p, th[p].em, neutralPos, "emr")
  /\ UNCHANGED <<command_list, isRunning, runCount, dialogs, guiCounts,
                 cleanups, lastCall, faults, executed>>

EndRecord(p) ==
  /\ th[p].pc = "emr"
  /\ RecordTarget(p, th[p].em)
  /\ th' = IF th[p].em < 4
             THEN [th EXCEPT ![p].pc = "emw", ![p].em = @ + 1]
             ELSE [th EXCEPT ![p].pc = "disp"]
  /\ UNCHANGED <<command_list, isRunning, runCount, dialogs, guiCounts,
                 cleanups, lastCall, faults, executed>>

\* lines 440-441: stringName[i + 1] for i in range(len(command_list));
\* stringName has the keys 1..8
EndDisplay(p) ==
  /\ th[p].pc = "disp"
  /\ th' = [th EXCEPT ![p].pc = IF Len(command_list) <= MaxCommands
                                  THEN "rc" ELSE AfterRaise(p)]
  /\ UNCHANGED <<command_list, isRunning, runCount, ctrlVars, dialogs, guiCounts,
                 cleanups, log, lastCall, faults, executed>>

\* line 443: self.runCount = 0
EndResetCount(p) ==
  /\ th[p].pc = "rc"
  /\ runCount' = 0
  /\ th' = [th EXCEPT ![p].pc = "clr"]
  /\ UNCHANGED <<command_list, isRunning, ctrlVars, dialogs, guiCounts,
                 cleanups, log, lastCall, faults, executed>>

\* line 444: self.command_list[:] = []
EndClear(p) ==
  /\ th[p].pc = "clr"
  /\ command_list' = << >>
  /\ th' = [th EXCEPT ![p].pc = AfterEnd(p)]
  /\ UNCHANGED <<isRunning, runCount, ctrlVars, dialogs, guiCounts,
                 cleanups, log, lastCall, faults, executed>>


(* ---------------- a serial write that raises ---------------- *)

\* a failed write that updates Targets all the same (line 108 run regardless)
WriteFailsRecorded(p) ==
  /\ th[p].pc \in {"w1", "w2", "emw"}
  /\ faults < MaxFaults
  /\ faults' = faults + 1
  /\ th' = [th EXCEPT ![p].pc = AfterRaise(p)]
  /\ LET chan == IF th[p].pc = "emw" THEN th[p].em ELSE ChannelOf(th[p].cmd[1])
         target == IF th[p].pc = "w1" THEN th[p].cmd[2] ELSE neutralPos
     IN  Targets' = [Targets EXCEPT ![chan] = Clamp(Mins[chan], Maxs[chan], target)]
  /\ UNCHANGED <<command_list, isRunning, runCount, Mins, Maxs, hw, dialogs,
                 guiCounts, cleanups, log, lastCall, executed>>

\* lines 62-67 and 106: usb.write raises inside sendCmd.  Nothing catches it:
\* setTarget is left before line 108, a command_thread ends with the
\* exception, and in the main thread the callback is abandoned (Tk reports
\* the exception and stays in its event loop)
WriteFails(p) ==
  /\ th[p].pc \in {"w1", "w2", "emw"}
  /\ faults < MaxFaults
  /\ faults' = faults + 1
  /\ th' = [th EXCEPT ![p].pc = AfterRaise(p)]
  /\ UNCHANGED <<command_list, isRunning, runCount, ctrlVars, dialogs,
                 guiCounts, cleanups, log, lastCall, executed>>

(* ---------------- button_pressed, on the Tk main thread ---------------- *)

\* the main thread is in mainloop() (of the root window or of a dialog) and
\* can run a button callback
InEventLoop == th[0].pc = "loop"

\* a command_thread between its first line and its end
Live(r) == th[r].pc \notin {"none", "done", "dead"}

\* a command_thread inside the for loop of lines 352-385
InLoop(r) == th[r].pc \in {"start", "check", "fetch", "w1", "r1", "sleep1",
                           "w2", "r2", "sleep2"}

\* lines 449-476, val in 1..5: the test of line 449, then choose_values_window
\* opens a dialog and runs a nested mainloop; otherwise the press is refused
PressMove(val) ==
  /\ InEventLoop
  /\ val \in limits.types
  /\ Len(dialogs) < limits.dialogs
  /\ IF Len(command_list) < MaxCommands /\ isRunning = FALSE
       THEN dialogs' = Append(dialogs, <<val, "value">>)
       ELSE dialogs' = dialogs
  /\ UNCHANGED <<command_list, isRunning, runCount, ctrlVars, th, guiCounts,
                 cleanups, log, lastCall, faults, executed>>

\* lines 303-305 and 261-281: "done" in the value dialog ends its mainloop and
\* choose_time_window opens the time dialog
QuitWindow1 ==
  /\ InEventLoop
  /\ dialogs # << >>
  /\ dialogs[Len(dialogs)][2] = "value"
  /\ dialogs' = [dialogs EXCEPT ![Len(dialogs)] = <<@[1], "time">>]
  /\ UNCHANGED <<command_list, isRunning, runCount, ctrlVars, th, guiCounts,
                 cleanups, log, lastCall, faults, executed>>

\* lines 308-333: "done" in the time dialog appends the command; line 328
\* raises KeyError at place 9, before win.quit(), and the dialog stays open
QuitWindow2(value, time) ==
  /\ InEventLoop
  /\ dialogs # << >>
  /\ dialogs[Len(dialogs)][2] = "time"
  /\ appends < limits.appends
  /\ appends' = appends + 1
  /\ command_list' = Append(command_list,
                            <<dialogs[Len(dialogs)][1], value, time, NewId>>)
  /\ dialogs' = IF Len(command_list) + 1 <= MaxCommands
                  THEN SubSeq(dialogs, 1, Len(dialogs) - 1)
                  ELSE dialogs
  /\ UNCHANGED <<isRunning, runCount, ctrlVars, th, nruns, stops, limits,
                 cleanups, log, lastCall, faults, executed>>

\* lines 479-487, val = 6: delete last
PressDelete ==
  /\ InEventLoop
  /\ IF Len(command_list) > 0 /\ isRunning = FALSE
       THEN command_list' = SubSeq(command_list, 1, Len(command_list) - 1)
       ELSE command_list' = command_list
  /\ UNCHANGED <<isRunning, runCount, ctrlVars, th, dialogs, guiCounts,
                 cleanups, log, lastCall, faults, executed>>

\* line 490 with the length test left out
CanRunAnyLength == isRunning = FALSE

\* the test of line 490
CanRun == Len(command_list) > 0 /\ isRunning = FALSE

\* lines 489-494 and 336-345, val = 7: run
PressRun ==
  /\ InEventLoop
  /\ nruns < limits.runs
  /\ IF CanRun
       THEN /\ isRunning' = TRUE
            /\ nruns' = nruns + 1
            /\ th' = [th EXCEPT ![nruns + 1] = NewProc("start")]
       ELSE UNCHANGED <<isRunning, nruns, th>>
  /\ UNCHANGED <<command_list, runCount, ctrlVars, dialogs, appends, stops,
                 limits, cleanups, log, lastCall, faults, executed>>

\* the index a command_thread is working on when stop is pressed
StopIndex(r) == IF th[r].pc \in {"start", "check"} THEN th[r].i - 1 ELSE th[r].i

\* lines 495-497, val = 8: stop sets isRunning and calls endMethod itself
PressStop ==
  /\ InEventLoop
  /\ isRunning = TRUE
  /\ stops < limits.stops
  /\ nruns \in limits.stoppable
  /\ stops' = stops + 1
  /\ isRunning' = FALSE
  /\ th' = [p \in Procs |->
              IF p = 0 THEN [th[0] EXCEPT !.pc = "emw", !.em = 0]
              ELSE IF InLoop(p) /\ th[p].stopIdx = -2
                     THEN [th[p] EXCEPT !.stopIdx = StopIndex(p)]
                     ELSE th[p]]
  /\ cleanups' = IF nruns \in Runs THEN [cleanups EXCEPT ![nruns] = @ + 1]
                                   ELSE cleanups
  /\ UNCHANGED <<command_list, runCount, ctrlVars, dialogs, nruns, appends,
                 limits, log, lastCall, faults, executed>>

(* ---------------- the Controller used alone ---------------- *)

ClampChannels == {0, 23}
RangeChoices == {-100, 0, 3000, 9000, 20000}
TargetChoices == {-200, 2000, 6000, 9500, 16383, 25000}

\* lines 76-78
SetRange(chan, mn, mx) ==
  /\ Mins' = [Mins EXCEPT ![chan] = mn]
  /\ Maxs' = [Maxs EXCEPT ![chan] = mx]
  /\ lastCall' = << >>
  /\ UNCHANGED <<command_list, isRunning, runCount, Targets, hw, th, dialogs,
                 guiCounts, cleanups, log, faults, executed>>

\* lines 95-108, one caller: the whole call
SetTarget(chan, target) ==
  LET t == Clamp(Mins[chan], Maxs[chan], target)
      f == SetTargetFrame(chan, t)
  IN  /\ hw' = [hw EXCEPT ![chan] = FrameTarget(f)]
      /\ Targets' = [Targets EXCEPT ![chan] = t]
      /\ lastCall' = [chan |-> chan, target |-> target, sent |-> t, frame |-> f]
      /\ UNCHANGED <<command_list, isRunning, runCount, Mins, Maxs, th, dialogs,
                     guiCounts, cleanups, log, faults, executed>>

InitClamp ==
  /\ Constructed(<< >>)
  /\ limits = [runs |-> 0, stops |-> 0, stoppable |-> {}, appends |-> 0,
               dialogs |-> 0, types |-> {}]

NextClamp ==
  \/ \E chan \in ClampChannels, mn \in RangeChoices, mx \in RangeChoices :
       SetRange(chan, mn, mx)
  \/ \E chan \in ClampChannels, target \in TargetChoices : SetTarget(chan, target)

SpecClamp == InitClamp /\ [][NextClamp]_vars

(* ---------------- the program ---------------- *)

ThreadStep(r) ==
  \/ ThreadStart(r)
  \/ LoopHead(r)
  \/ Fetch(r)
  \/ MoveSend(r)
  \/ MoveRecord(r)
  \/ Hold(r)
  \/ NeutralSend(r)
  \/ NeutralRecord(r)
  \/ Rest(r)
  \/ LoopExit(r)

EndStep(p) ==
  \/ EndSend(p)
  \/ EndRecord(p)
  \/ EndDisplay(p)
  \/ EndResetCount(p)
  \/ EndClear(p)

Next ==
  \/ \E val \in MoveTypes : PressMove(val)
  \/ QuitWindow1
  \/ \E value \in ValueChoices, time \in TimeChoices : QuitWindow2(value, time)
  \/ PressDelete
  \/ PressRun
  \/ PressStop
  \/ \E r \in Runs : ThreadStep(r)
  \/ \E p \in Procs : EndStep(p)

Spec == Init /\ [][Next]_vars

SpecRestart == InitRestart /\ [][Next]_vars

SpecShort == InitShort /\ [][Next]_vars

\* a prepared queue is run on a serial port whose writes can raise; the user
\* deletes, runs and stops, and enqueues nothing more
NextFault ==
  \/ PressDelete
  \/ PressRun
  \/ PressStop
  \/ \E r \in Runs : ThreadStep(r)
  \/ \E p \in Procs : EndStep(p)
  \/ \E p \in Procs : WriteFails(p)

SpecFault == InitFault /\ [][NextFault]_vars

\* every thread that can take a step eventually takes one: a command_thread is
\* never starved, and endMethod, once entered, runs on
Fairness ==
  /\ \A r \in Runs : WF_vars(ThreadStep(r))
  /\ \A p \in Procs : WF_vars(EndStep(p))

FairRestart == SpecRestart /\ Fairness


(* ---------------- what the claims speak about ---------------- *)

\* process p has just sent a set-target frame (a step from a write position
\* to the position that records the target)
SendStep(p) ==
  /\ th[p].pc \in {"w1", "w2", "emw"}
  /\ th'[p].pc \in {"r1", "r2", "emr"}

\* command_thread r has issued the setTarget of the command at its index i
MoveIssued(r) == th[r].pc \in {"r1", "sleep1", "w2", "r2", "sleep2"}

\* stop was pressed while command_thread r was inside its loop
Stopped(r) == th[r].stopIdx # -2

\* stop has been requested and the hold of the step in flight is not over
HoldPending(r) == th[r].pc = "sleep1" /\ Stopped(r) /\ th[r].stopIdx = th[r].i

\* no run is in progress on any thread: every command_thread has ended and
\* the main thread is not inside endMethod
Quiet == (\A r \in Runs : ~Live(r)) /\ InEventLoop

Finished(r) == th[r].pc \in {"done", "dead"}

\* the writes of one command, lines 360-383
StepWrites(cmd) ==
  IF ReturnsToNeutral(cmd[1])
    THEN <<(<<ChannelOf(cmd[1]), cmd[2]>>), (<<ChannelOf(cmd[1]), neutralPos>>)>>
    ELSE <<(<<ChannelOf(cmd[1]), cmd[2]>>)>>

RECURSIVE QueueWrites(_)
QueueWrites(q) ==
  IF q = << >> THEN << >> ELSE StepWrites(Head(q)) \o QueueWrites(Tail(q))

\* the writes of endMethod, lines 434-438
CleanupWrites == [c \in 1 .. 5 |-> <<c - 1, neutralPos>>]

IsPrefix(a, b) == Len(a) <= Len(b) /\ a = SubSeq(b, 1, Len(a))

(* ---------------- C1 ---------------- *)

\* C1: the end-of-run cleanup (endMethod) is executed exactly once per started
\* run: never twice, and once by the time the run is over.
C1_CleanupExactlyOnce ==
  \A r \in Runs :
    /\ cleanups[r] <= 1
    /\ (Finished(r) /\ InEventLoop) => cleanups[r] = 1

(* ---------------- C2 ---------------- *)

\* C2: from the stop request until the hold of the step in flight is over, no
\* thread sends a set-target frame.
C2_NoWriteUntilHoldEnds ==
  [][(\E r \in Runs : HoldPending(r)) => ~(\E p \in Procs : SendStep(p))]_vars

(* ---------------- C3 ---------------- *)

\* C3: once stop was requested while command k was processed, the thread issues
\* no setTarget for a command after k.
C3_NoLaterCommandAfterStop ==
  \A r \in Runs :
    (th[r].stopIdx >= 0 /\ MoveIssued(r)) => th[r].i <= th[r].stopIdx

(* ---------------- C4 ---------------- *)

\* C4: at the moment a run has ended and no thread is active any more, the
\* state is Idle, the queue empty, the stage counter 0 and channels 0-4 neutral.
C4_IdleAfterRun ==
  [][(~Quiet /\ Quiet') =>
       /\ isRunning' = FALSE
       /\ command_list' = << >>
       /\ runCount' = 0
       /\ \A c \in 0 .. 4 : Targets'[c] = neutralPos]_vars

(* ---------------- C5 ---------------- *)

\* C5: a run that is not stopped issues the writes of its queue in order, each
\* command's setTarget (and the neutral write for motor and turning), then the
\* five cleanup writes.
C5_WritesInQueueOrder ==
  \A r \in Runs :
    ~Stopped(r) =>
      /\ IsPrefix(log[r], QueueWrites(th[r].snap) \o CleanupWrites)
      /\ Finished(r) => log[r] = QueueWrites(th[r].snap) \o CleanupWrites

(* ---------------- C6 ---------------- *)

\* C6: the command queue never holds more than 8 commands.
C6_QueueAtMostEight == Len(command_list) <= MaxCommands

(* ---------------- C7 ---------------- *)

\* C7: while the engine is not Idle the queue is not changed by an enqueue or
\* a removeLast.
C7_NoQueueEditWhileRunning ==
  [][isRunning =>
       /\ ~(command_list' # command_list /\ IsPrefix(command_list, command_list'))
       /\ ~(command_list' # command_list /\ th' = th
              /\ IsPrefix(command_list', command_list))]_vars

(* ---------------- C8 ---------------- *)

\* C8: pressing run with an empty queue changes nothing: no thread is spawned,
\* isRunning and the stage counter keep their values, nothing is written.
C8_EmptyStartRejected ==
  [][(PressRun /\ command_list = << >>) =>
       UNCHANGED <<isRunning, runCount, th, nruns, command_list, ctrlVars,
                   cleanups, log>>]_vars

\* a command was enqueued and removed again: the queue is empty, no run is
\* active and run can be pressed
C8_Witness ==
  /\ command_list = << >>
  /\ appends >= 1
  /\ InEventLoop
  /\ isRunning = FALSE
  /\ nruns < limits.runs
  /\ \A r \in Runs : ~Live(r)


(* ---------------- C9 ---------------- *)

\* C9: every started run returns to Idle: once a command_thread has started,
\* eventually isRunning is false and the thread has left its loop.
C9_RunReturnsToIdle ==
  \A r \in Runs : (th[r].pc = "start") ~> (isRunning = FALSE /\ ~InLoop(r))


(* ---------------- C10 ---------------- *)

\* the bounds, the recorded target and the written target of the call made last
CallMin == Mins[lastCall.chan]
CallMax == Maxs[lastCall.chan]
CallRecorded == Targets[lastCall.chan]
CallWritten == hw[lastCall.chan]

\* C10 as stated: with both bounds nonzero the target recorded and written is
\* inside [min, max]; with both bounds 0 the requested value is used unchanged.
C10_ClampAnyNonzeroRange ==
  lastCall # << >> =>
    /\ (CallMin # 0 /\ CallMax # 0) =>
         /\ CallRecorded \in CallMin .. CallMax
         /\ CallWritten \in CallMin .. CallMax
    /\ (CallMin = 0 /\ CallMax = 0) =>
         /\ CallRecorded = lastCall.target
         /\ CallWritten = lastCall.target

\* C10 amended: with 0 < min <= max the recorded target is inside [min, max],
\* and the frame carries that same value when max <= 16383; a bound that is
\* not positive clamps nothing on its side; with both bounds 0 the requested
\* value is recorded unchanged, and written unchanged when it is in 0..16383.
C10_ClampOrderedRange ==
  lastCall # << >> =>
    /\ (0 < CallMin /\ CallMin <= CallMax) =>
         /\ CallRecorded \in CallMin .. CallMax
         /\ CallMax <= 16383 => CallWritten = CallRecorded
    /\ (CallMin <= 0 /\ (CallMax <= 0 \/ lastCall.target <= CallMax)) =>
         CallRecorded = lastCall.target
    /\ (CallMax <= 0 /\ (CallMin <= 0 \/ lastCall.target >= CallMin)) =>
         CallRecorded = lastCall.target
    /\ (CallMin = 0 /\ CallMax = 0 /\ lastCall.target \in 0 .. 16383) =>
         CallWritten = lastCall.target

\* a request below an ordered range has been clamped up to its minimum
C10_Witness ==
  /\ lastCall # << >>
  /\ 0 < CallMin /\ CallMin <= CallMax
  /\ lastCall.target < CallMin
  /\ CallRecorded = CallMin
  /\ CallWritten = CallMin

(* ---------------- C11 ---------------- *)

\* the value setTarget encodes at lines 103-104 in the call made last, and the
\* two data bytes of the frame it sent
CallSent == lastCall.sent
CallLsb == lastCall.frame[5]
CallMsb == lastCall.frame[6]

\* C11: for every channel and every encoded target in 0..16383 the last two
\* bytes of the set-target frame, put together as msb * 128 + lsb, give the
\* target back exactly, and both bytes are below 128 (bit 7 clear).
C11_FrameRoundTrip ==
  (lastCall # << >> /\ CallSent \in 0 .. 16383) =>
    /\ CallMsb * 128 + CallLsb = CallSent
    /\ CallLsb \in 0 .. 127
    /\ CallMsb \in 0 .. 127
    /\ lastCall.frame[4] = lastCall.chan

\* the largest 14-bit target has been encoded on the highest channel
C11_Witness ==
  /\ lastCall # << >>
  /\ lastCall.chan = NumChannels - 1
  /\ CallSent = 16383
  /\ CallLsb = 127
  /\ CallMsb = 127

(* ---------------- C12 ---------------- *)

\* process p is inside Controller.setTarget: its frame is written and the
\* assignment of line 108 is still to come
InCall(p) == th[p].pc \in {"r1", "r2", "emr"}

\* C12: whenever no setTarget call is in progress, the recorded target of
\* every channel equals the value carried by the last frame written for it.
C12_RecordedIsLastWritten ==
  (\A p \in Procs : ~InCall(p)) => \A c \in Channels : Targets[c] = hw[c]

(* ---------------- C13 ---------------- *)

\* C13: after a serial write has raised during a run, the run does not end
\* anywhere but in Idle: once no thread is active any more, isRunning is
\* false, the queue is cleared and the stage counter is reset.
C13_WriteFailureEndsIdle ==
  (faults > 0 /\ Quiet) =>
    /\ isRunning = FALSE
    /\ command_list = << >>
    /\ runCount = 0

(* ---------------- C14 ---------------- *)

\* C14: at no time are two threads both inside Controller.setTarget.
C14_OneCallerAtATime == Cardinality({p \in Procs : InCall(p)}) <= 1

(* ---------------- C15 ---------------- *)

\* C15: the step loop does not interleave with itself: at most one
\* command_thread is inside the loop of lines 352-385 at any time, so no run
\* starts while the loop of an earlier, stopped run is still going.
C15_OneEngineThread == Cardinality({r \in Runs : InLoop(r)}) <= 1

(* ---------------- C16 ---------------- *)

\* command_thread r issues the setTarget of the command at its index i
IssuesMove(r) == th[r].pc = "w1" /\ th'[r].pc = "r1"

\* a command_thread that has evaluated range(len(command_list)) and is still
\* in its loop
Iterating(r) == InLoop(r) /\ th[r].pc # "start"

\* C16: when the thread issues the setTarget of its k-th command the stage
\* counter is k, and the counter never exceeds the length of the queue the
\* run was started with.
C16_StageCountsCommands ==
  [][\A r \in Runs :
       /\ IssuesMove(r) => runCount = th[r].i + 1
       /\ Iterating(r) => runCount <= th[r].n]_vars

(* ---------------- C17 ---------------- *)

\* C17: while the step loop of a run is executing, the queue holds what it
\* held when the run started.
C17_QueueFixedDuringRun ==
  \A r \in Runs : Iterating(r) => command_list = th[r].snap

(* ---------------- C18 ---------------- *)

\* C18: a setTarget whose serial write raises leaves Targets, Mins and Maxs as
\* they were.
C18_FailedWriteNotRecorded ==
  [][\A p \in Procs : WriteFails(p) => UNCHANGED <<Targets, Mins, Maxs>>]_vars

\* a write has raised in a command_thread after an earlier setTarget of the
\* run was recorded
C18_Witness ==
  /\ faults > 0
  /\ \E r \in Runs : th[r].pc = "dead" /\ log[r] # << >>
  /\ \E c \in Channels : Targets[c] # 0

(* ---------------- C19 ---------------- *)

\* C19: a setTarget whose target after the clamp is above 16383 sends no frame
\* and leaves the recorded target as it was.
C19_OversizeTargetRejected ==
  [][\A chan \in ClampChannels, target \in TargetChoices :
       (SetTarget(chan, target) /\ Clamp(Mins[chan], Maxs[chan], target) > 16383)
         => UNCHANGED <<hw, Targets>>]_vars

(* ---------------- C20 ---------------- *)

\* C20: the step loop never reads command_list[i] with i outside the queue:
\* whenever a command_thread is about to run lines 356-359 its index is below
\* the length of the queue.
C20_IndexInsideQueue ==
  \A r \in Runs : th[r].pc = "fetch" => th[r].i < Len(command_list)

(* ---------------- C21 ---------------- *)

\* the commands that were in the queue when run r evaluated line 352
SnapIds(r) == {th[r].snap[j][4] : j \in 1 .. Len(th[r].snap)}

\* C21: no enqueued command has its setTarget issued twice, by one run or by
\* two, and every command a run executes was in the queue when it started.
C21_ExecutedAtMostOnce ==
  /\ \A r1, r2 \in Runs :
       \A j \in 1 .. Len(executed[r1]), k \in 1 .. Len(executed[r2]) :
         (r1 # r2 \/ j # k) => executed[r1][j] # executed[r2][k]
  /\ \A r \in Runs : \A j \in 1 .. Len(executed[r]) : executed[r][j] \in SnapIds(r)

====
